---- MODULE Spec2Model ----
(***************************************************************************)
(* The GDB remote serial protocol framing of gdb-protocol: the streaming   *)
(* Parser (src/src/parser.rs), the packet model (src/src/packet.rs) and    *)
(* the GdbServer session loop (src/src/io.rs).                             *)
(*                                                                         *)
(* Bytes are the integers 0..255.  An Option is a sequence of length at    *)
(* most one: None is << >> and Some(x) is <<x>>.  A panic of the Rust code *)
(* (expect, copy_from_slice on slices of different lengths) is the field   *)
(* panic of an operation's result and the variable panicked of the state.  *)
(***************************************************************************)
EXTENDS Integers, Sequences, FiniteSets, TLC

VARIABLES
    stream,     \* the whole byte stream the peer sends (chosen by Init)
    rest,       \* bytes of the stream not yet handed over (to feed / to the BufRead)
    pending,    \* feed's caller: the unconsumed remainder, re-supplied next call
                \* GdbServer: the BufRead's filled, not yet consumed buffer
    parser,     \* the Parser: state, kind, data, checksum
    out,        \* the packets feed has emitted, in order
    total,      \* the sum of the consumed counts feed has reported (in Spec: the
                \* bytes passed to reader.consume)
    panicked,   \* the program has panicked (the thread is gone)
    writer,     \* GdbServer.writer: the bytes written to the sink
    pc,         \* GdbServer: "idle" between calls, "loop" inside next_packet
                \* ("off" where there is no server)
    ret,        \* GdbServer: the values next_packet has returned, in order
    call,       \* GdbServer: what the running (or last) next_packet call has done,
                \* in program order: fill_buf, emit, write and return events
    pkt,        \* packet model: the packet value the caller holds
    via         \* packet model: the operation that produced pkt

feedVars == <<stream, rest, pending, parser, out, total, panicked>>
serverVars == <<writer, pc, ret, call>>
packetVars == <<pkt, via>>
vars == <<stream, rest, pending, parser, out, total, panicked,
          writer, pc, ret, call, pkt, via>>

----------------------------------------------------------------------------
(* Bounds of the model *)

MaxStream == 5      \* SpecFeed: longest byte stream fed to the Parser
MaxData == 3        \* SpecPacket: longest payload of a packet the caller builds
MaxSegs == 3        \* Spec: the peer's stream is at most this many segments
MaxCalls == 3       \* Spec: calls of next_packet
MaxPayload == 3     \* SpecWire: longest payload of a packet the sender encodes
MaxIOSegs == 2      \* SpecIO: the peer's stream is at most this many segments
MaxStep == 4        \* SpecStep: longest byte stream stepped through

\* The alphabet of SpecFeed's streams: '#', '$', '%', '*', '0', '}'.
\* '0' is a payload byte, a hexadecimal digit and a repeat count (48 - 29 = 19).
FeedBytes == {35, 36, 37, 42, 48, 125}

\* The payload bytes of SpecPacket: '0', 0xA0 and 0xD0 (0xD0 + '0' wraps to 0x00,
\* 0xD0 + 0xD0 wraps to 0xA0).
DataBytes == {48, 160, 208}

\* The checksum bytes of SpecPacket: '+', '0', '3', 'A', 'G', 'a', the two bytes of
\* the UTF-8 text "\u00e9" (0xC3 0xA9) and 0xFF, which no UTF-8 text holds.
ChecksumBytes == {43, 48, 51, 65, 71, 97, 195, 169, 255}

\* The pieces the peer's stream is made of in Spec: single bytes ('#', '0')
\* and whole packets: "$#00" and "$0#30" (checksum-valid), "$0#00" (mismatch),
\* "$0#G0" (checksum not a number), "%#00" (valid notification), "%0#00" (invalid one).
Segments ==
    { <<35>>, <<48>>,
      <<36, 35, 48, 48>>, <<36, 48, 35, 51, 48>>, <<36, 48, 35, 48, 48>>,
      <<36, 48, 35, 71, 48>>, <<37, 35, 48, 48>>, <<37, 48, 35, 48, 48>> }

RECURSIVE SeqsUpTo(_, _)
SeqsUpTo(S, n) ==
    IF n = 0 THEN {<< >>}
    ELSE LET shorter == SeqsUpTo(S, n - 1)
         IN  shorter \cup {Append(s, b) : s \in {t \in shorter : Len(t) = n - 1}, b \in S}

----------------------------------------------------------------------------
(* Option and slices *)

None == << >>
Some(x) == <<x>>

\* &input[n..] for a 0-based n
From(input, n) == SubSeq(input, n + 1, Len(input))
\* &input[..n]
UpTo(input, n) == SubSeq(input, 1, n)

Min(a, b) == IF a <= b THEN a ELSE b

\* memchr: the 0-based position of the first byte of input that is in set, as an Option
memchr(set, input) ==
    LET hits == {i \in 1..Len(input) : input[i] \in set}
    IN  IF hits = {} THEN None
        ELSE Some((CHOOSE i \in hits : \A j \in hits : i <= j) - 1)

\* b ^ 0x20 on a byte
Xor20(b) == IF (b \div 32) % 2 = 1 THEN b - 32 ELSE b + 32

\* iter::repeat(c).take(n)
Repeated(c, n) == [k \in 1..n |-> c]

----------------------------------------------------------------------------
(* parser.rs *)

CHECKSUM_LEN == 2

\* Parser::default()
ParserDefault ==
    [state |-> "Type", i |-> 0, kind |-> "Notification", data |-> << >>, checksum |-> <<0, 0>>]

\* What feed_one and feed return: Ok((read, packet)) and the parser afterwards, or a panic.
Fed(p, read, packet) == [panic |-> FALSE, parser |-> p, read |-> read, packet |-> packet]
Panic(p) == [panic |-> TRUE, parser |-> p, read |-> 0, packet |-> None]

\* State::Type
feed_Type(p, input) ==
    LET start == memchr({37, 36}, input)
        kind  == IF start = None THEN p.kind
                 ELSE IF input[start[1] + 1] = 37 THEN "Notification" ELSE "Packet"
    IN  Fed([p EXCEPT !.kind = kind,
                      !.state = IF start # None THEN "Data" ELSE "Type"],
            IF start # None THEN start[1] + 1 ELSE Len(input),
            None)

\* State::Data with a '$' or '%' in the payload starting the packet anew
feed_Data_restart(p, input) ==
    LET end  == memchr({35, 125, 42, 36, 37}, input)
        stop == IF end = None THEN 0 ELSE input[end[1] + 1]
        st   == IF stop = 35 THEN "Checksum"
                ELSE IF stop = 125 THEN "Escape"
                ELSE IF stop = 42 THEN "Repeat"
                ELSE "Data"
    IN  Fed([p EXCEPT !.state = st,
                      !.i = 0,
                      !.kind = IF stop = 37 THEN "Notification"
                               ELSE IF stop = 36 THEN "Packet" ELSE @,
                      !.data = IF stop \in {36, 37} THEN << >>
                               ELSE @ \o UpTo(input, IF end = None THEN Len(input) ELSE end[1])],
            IF end # None THEN end[1] + 1 ELSE Len(input),
            None)

\* State::Data
feed_Data(p, input) ==
    LET end  == memchr({35, 125, 42}, input)
        stop == IF end = None THEN 0 ELSE input[end[1] + 1]
        st   == IF stop = 35 THEN "Checksum"
                ELSE IF stop = 125 THEN "Escape"
                ELSE IF stop = 42 THEN "Repeat"
                ELSE "Data"
    IN  Fed([p EXCEPT !.state = st,
                      !.i = 0,
                      !.data = @ \o UpTo(input, IF end = None THEN Len(input) ELSE end[1])],
            IF end # None THEN end[1] + 1 ELSE Len(input),
            None)

\* State::Escape with the byte pushed as it came
feed_Escape_raw(p, input) ==
    Fed([p EXCEPT !.data = Append(@, input[1]), !.state = "Data"], 1, None)

\* State::Escape
feed_Escape(p, input) ==
    Fed([p EXCEPT !.data = Append(@, Xor20(input[1])), !.state = "Data"], 1, None)

\* first.wrapping_sub(29)
RepeatCount_wrapping(first) == (first - 29) % 256

\* first.saturating_sub(29)
RepeatCount(first) == IF first >= 29 THEN first - 29 ELSE 0

\* State::Repeat: data.last().expect(..) panics on an empty payload
feed_Repeat(p, input) ==
    IF p.data = << >> THEN Panic(p)
    ELSE LET c == p.data[Len(p.data)]
         IN  Fed([p EXCEPT !.data = @ \o Repeated(c, RepeatCount(input[1])),
                           !.state = "Data"],
                 1, None)

\* State::Checksum(i) with the payload left in the parser when the packet is emitted
feed_Checksum_keep_data(p, input) ==
    LET read == Min(CHECKSUM_LEN - p.i, Len(input))
        i    == p.i + read
        sum  == [k \in 1..CHECKSUM_LEN |->
                    IF k > p.i /\ k <= p.i + read THEN input[k - p.i] ELSE p.checksum[k]]
    IN  IF CHECKSUM_LEN - p.i # read THEN Panic(p)
        ELSE IF i < CHECKSUM_LEN
        THEN Fed([p EXCEPT !.checksum = sum, !.i = i], read, None)
        ELSE Fed([p EXCEPT !.checksum = sum, !.i = 0, !.state = "Type"],
                 read,
                 Some([kind |-> p.kind, data |-> p.data, checksum |-> sum]))

\* State::Checksum(i): checksum[i..].copy_from_slice(&input[..read]) panics unless
\* the two slices have the same length, that is unless read = CHECKSUM_LEN - i
feed_Checksum(p, input) ==
    LET read == Min(CHECKSUM_LEN - p.i, Len(input))
        i    == p.i + read
        sum  == [k \in 1..CHECKSUM_LEN |->
                    IF k > p.i /\ k <= p.i + read THEN input[k - p.i] ELSE p.checksum[k]]
    IN  IF CHECKSUM_LEN - p.i # read THEN Panic(p)
        ELSE IF i < CHECKSUM_LEN
        THEN Fed([p EXCEPT !.checksum = sum, !.i = i], read, None)
        ELSE Fed([p EXCEPT !.checksum = sum, !.i = 0, !.state = "Type", !.data = << >>],
                 read,
                 Some([kind |-> p.kind, data |-> p.data, checksum |-> sum]))

\* Parser::feed_one
feed_one(p, input) ==
    IF input = << >> THEN Fed(p, 0, None)
    ELSE CASE p.state = "Type"     -> feed_Type(p, input)
           [] p.state = "Data"     -> feed_Data(p, input)
           [] p.state = "Escape"   -> feed_Escape(p, input)
           [] p.state = "Repeat"   -> feed_Repeat(p, input)
           [] p.state = "Checksum" -> feed_Checksum(p, input)

\* the loop of Parser::feed reporting the whole input as consumed
RECURSIVE feed_loop_all_consumed(_, _, _)
feed_loop_all_consumed(p, input, read) ==
    LET r   == feed_one(p, From(input, read))
        now == read + r.read
    IN  IF r.panic THEN Panic(r.parser)
        ELSE IF now = Len(input) \/ r.packet # None
        THEN Fed(r.parser, Len(input), r.packet)
        ELSE feed_loop_all_consumed(r.parser, input, now)

\* the loop of Parser::feed, read bytes of input being consumed already
RECURSIVE feed_loop(_, _, _)
feed_loop(p, input, read) ==
    LET r   == feed_one(p, From(input, read))
        now == read + r.read
    IN  IF r.panic THEN Panic(r.parser)
        ELSE IF now = Len(input) \/ r.packet # None
        THEN Fed(r.parser, now, r.packet)
        ELSE feed_loop(r.parser, input, now)

\* Parser::feed
feed(p, input) == feed_loop(p, input, 0)

----------------------------------------------------------------------------
(* packet.rs *)

\* UncheckedPacket { kind, data, checksum }
UncheckedPacket(kind, data, checksum) == [kind |-> kind, data |-> data, checksum |-> checksum]

\* std::str::from_utf8 on the two checksum bytes: two ASCII bytes, or one two-byte
\* character (lead byte 0xC2..0xDF, continuation byte 0x80..0xBF)
from_utf8_ok(bytes) ==
    \/ bytes[1] < 128 /\ bytes[2] < 128
    \/ bytes[1] \in 194..223 /\ bytes[2] \in 128..191

\* char::to_digit(16) on a byte of the text, as an Option
to_digit(b) ==
    IF b \in 48..57 THEN Some(b - 48)
    ELSE IF b \in 97..102 THEN Some(b - 87)
    ELSE IF b \in 65..70 THEN Some(b - 55)
    ELSE None

\* the digits of u8::from_str_radix(.., 16) folded from the left
RECURSIVE parse_digits(_, _)
parse_digits(digits, acc) ==
    IF digits = << >> THEN Some(acc)
    ELSE IF to_digit(digits[1]) = None THEN None
    ELSE parse_digits(Tail(digits), acc * 16 + to_digit(digits[1])[1])

\* u8::from_str_radix(string, 16), as an Option: a lone sign is an error, a leading
\* '+' is skipped, '-' is no digit of an unsigned type, a value over 255 overflows
from_str_radix(string) ==
    IF string = << >> THEN None
    ELSE IF Len(string) = 1 /\ string[1] \in {43, 45} THEN None
    ELSE LET digits == IF string[1] = 43 THEN Tail(string) ELSE string
             n      == parse_digits(digits, 0)
         IN  IF n # None /\ n[1] > 255 THEN None ELSE n

\* UncheckedPacket::expected_checksum: Ok(byte), Err(NonUtf8) or Err(NonNumber)
expected_checksum(p) ==
    IF ~from_utf8_ok(p.checksum) THEN [ok |-> None, err |-> "NonUtf8"]
    ELSE IF from_str_radix(p.checksum) = None THEN [ok |-> None, err |-> "NonNumber"]
    ELSE [ok |-> from_str_radix(p.checksum), err |-> "none"]

\* hash.saturating_add(b) on u8
saturating_add(hash, b) == IF hash + b > 255 THEN 255 ELSE hash + b

\* hash.wrapping_add(b) on u8
wrapping_add(hash, b) == (hash + b) % 256

\* the loop of actual_checksum over the data from position k on
RECURSIVE checksum_from(_, _, _)
checksum_from(data, k, hash) ==
    IF k > Len(data) THEN hash
    ELSE checksum_from(data, k + 1, wrapping_add(hash, data[k]))

\* UncheckedPacket::actual_checksum
actual_checksum(p) == checksum_from(p.data, 1, 0)

\* CheckedPacket::assume_checked
assume_checked(unchecked) == [unchecked |-> unchecked]

\* CheckedPacket::invalidate_check
invalidate_check(checked) == checked.unchecked

\* check with a checksum that does not parse taken to be zero
check_unwrap_or_default(p) ==
    LET expected == IF expected_checksum(p).ok = None THEN 0 ELSE expected_checksum(p).ok[1]
    IN  IF expected = actual_checksum(p) THEN Some(assume_checked(p)) ELSE None

\* UncheckedPacket::check
check(p) ==
    IF expected_checksum(p).ok = Some(actual_checksum(p))
    THEN Some(assume_checked(p))
    ELSE None

\* CheckedPacket::empty
empty == assume_checked(UncheckedPacket("Packet", << >>, <<48, 48>>))

\* one digit of the "{:02X}" formatting
upper_hex_digit(d) == IF d < 10 THEN 48 + d ELSE 55 + d

\* "{:X}": no zero padding, a value under 16 leaves the second byte of the buffer as it was
format_X(actual) ==
    IF actual < 16 THEN <<upper_hex_digit(actual), 0>>
    ELSE <<upper_hex_digit(actual \div 16), upper_hex_digit(actual % 16)>>

\* write!(&mut checksum[..], "{:02X}", actual): at least two digits, zero padded,
\* written over the start of the two-byte buffer
format_02X(actual) == <<upper_hex_digit(actual \div 16), upper_hex_digit(actual % 16)>>

\* CheckedPacket::from_data
from_data(kind, data) ==
    LET packet == UncheckedPacket(kind, data, <<0, 0>>)
        actual == actual_checksum(packet)
    IN  assume_checked([packet EXCEPT !.checksum = format_02X(actual)])

\* Option::unwrap_or
unwrap_or(option, default) == IF option = None THEN default ELSE option[1]

\* the loop of encode with the '*' search left out: only '#', '$' and '}' are escaped
RECURSIVE encode_loop_no_star(_, _)
encode_loop_no_star(remaining, w) ==
    IF remaining = << >> THEN w
    ELSE LET escape1 == memchr({35, 36, 125}, remaining)
             escape  == unwrap_or(escape1, Len(remaining))
             written == w \o UpTo(remaining, escape)
             left    == From(remaining, escape)
         IN  IF left # << >>
             THEN encode_loop_no_star(Tail(left), written \o <<125, Xor20(left[1])>>)
             ELSE encode_loop_no_star(left, written)

\* the while loop of UncheckedPacket::encode: w is what has been written so far
RECURSIVE encode_loop(_, _)
encode_loop(remaining, w) ==
    IF remaining = << >> THEN w
    ELSE LET escape1 == memchr({35, 36, 125}, remaining)
             escape2 == memchr({42}, remaining)
             escape  == Min(unwrap_or(escape1, Len(remaining)),
                            unwrap_or(escape2, Len(remaining)))
             written == w \o UpTo(remaining, escape)
             left    == From(remaining, escape)
         IN  IF left # << >>
             THEN encode_loop(Tail(left), written \o <<125, Xor20(left[1])>>)
             ELSE encode_loop(left, written)

\* UncheckedPacket::encode into a writer that holds w and does not fail
encode(p, w) ==
    encode_loop(p.data, w \o <<IF p.kind = "Notification" THEN 37 ELSE 36>>)
        \o <<35>> \o p.checksum

----------------------------------------------------------------------------
(* SpecFeed: one Parser fed a byte stream in chunks by a caller that          *)
(* re-supplies the unconsumed remainder in front of the next chunk.           *)

ServerIdle ==
    /\ writer = << >>
    /\ pc = "off"
    /\ ret = << >>
    /\ call = << >>

PacketIdle ==
    /\ pkt = None
    /\ via = [op |-> "none", arg |-> << >>]

InitFeed ==
    /\ stream \in SeqsUpTo(FeedBytes, MaxStream)
    /\ rest = stream
    /\ pending = << >>
    /\ parser = ParserDefault
    /\ out = << >>
    /\ total = 0
    /\ panicked = FALSE
    /\ ServerIdle
    /\ PacketIdle

\* The caller hands the next n bytes of the stream (none, for an empty chunk) to feed,
\* behind the remainder feed left unconsumed.
\* call holds the record of this feed call.
FeedChunk(n) ==
    /\ ~panicked
    /\ \E input \in {pending \o UpTo(rest, n)} :
       \E r \in {feed(parser, input)} :
           /\ call' = <<[before |-> parser, input |-> input, read |-> r.read,
                         packet |-> r.packet, panic |-> r.panic]>>
           /\ IF r.panic
              THEN /\ panicked' = TRUE
                   /\ UNCHANGED <<rest, pending, parser, out, total>>
              ELSE /\ panicked' = FALSE
                   /\ parser' = r.parser
                   /\ pending' = From(input, r.read)
                   /\ rest' = From(rest, n)
                   /\ out' = out \o r.packet
                   /\ total' = total + r.read
    /\ UNCHANGED <<stream, writer, pc, ret, packetVars>>

NextFeed == \E n \in 0..Len(rest) : FeedChunk(n)

SpecFeed == InitFeed /\ [][NextFeed]_vars

\* The same stream fed whole to a fresh Parser, the caller feeding the remainder again
\* after each packet: the packets emitted and the bytes consumed.
RECURSIVE Drain(_, _, _, _)
Drain(p, input, packets, consumed) ==
    IF input = << >> THEN [panic |-> FALSE, out |-> packets, total |-> consumed]
    ELSE LET r == feed(p, input)
         IN  IF r.panic THEN [panic |-> TRUE, out |-> packets, total |-> consumed]
             ELSE Drain(r.parser, From(input, r.read), packets \o r.packet, consumed + r.read)

Whole(s) == Drain(ParserDefault, s, << >>, 0)

FeedDone == rest = << >> /\ pending = << >>

\* C1: for every byte stream the whole-stream run handles, and every way of cutting it
\* into chunks, the chunked run does not fault and, once the stream is used up, has
\* emitted the same packets and consumed the same number of bytes as the whole run.
C1_ChunkingEquivalence ==
    ~Whole(stream).panic =>
        /\ ~panicked
        /\ FeedDone => (out = Whole(stream).out /\ total = Whole(stream).total)

\* C2: no sequence of feed calls, whatever the bytes and the chunk lengths, faults.
C2_FeedNeverFaults == ~panicked

----------------------------------------------------------------------------
(* io.rs: GdbServer over a BufRead source and a Write sink.  Spec is a session: *)
(* the peer's stream arrives in reads of any size and the caller calls          *)
(* next_packet again and again.                                                 *)

RECURSIVE Flatten(_)
Flatten(segs) == IF segs = << >> THEN << >> ELSE segs[1] \o Flatten(Tail(segs))

Streams == {Flatten(segs) : segs \in SeqsUpTo(Segments, MaxSegs)}

Event(ev, arg) == [ev |-> ev, arg |-> arg]

\* the log of a call with a fill_buf added (consecutive ones are logged once)
Filled(log) ==
    IF log # << >> /\ log[Len(log)].ev = "fill_buf" THEN log
    ELSE Append(log, Event("fill_buf", << >>))

\* BufRead::fill_buf: the buffered bytes if there are any, else the next n bytes read
\* from the transport (n >= 1 unless the stream has ended)
fill_buf(buffered, transport, n) ==
    IF buffered # << >> THEN [buf |-> buffered, rest |-> transport]
    ELSE [buf |-> UpTo(transport, n), rest |-> From(transport, n)]

\* the sizes a read from the transport can have
ReadSizes ==
    IF pending # << >> \/ rest = << >> THEN {0} ELSE 1..Len(rest)

\* the match with the '+' of a valid packet forgotten
on_packet_no_ack(packet) ==
    IF packet.kind = "Packet"
    THEN IF check(packet) # None
         THEN [write |-> << >>, break |-> TRUE, value |-> check(packet)]
         ELSE [write |-> <<45>>, break |-> FALSE, value |-> None]
    ELSE [write |-> << >>, break |-> TRUE, value |-> check(packet)]

\* the match with the continue after the '-' forgotten: the failed check is returned
on_packet_no_retry(packet) ==
    IF packet.kind = "Packet"
    THEN IF check(packet) # None
         THEN [write |-> <<43>>, break |-> TRUE, value |-> check(packet)]
         ELSE [write |-> <<45>>, break |-> TRUE, value |-> None]
    ELSE [write |-> << >>, break |-> TRUE, value |-> check(packet)]

\* the match with one arm for both kinds: notifications get a handshake byte too
on_packet_any_kind(packet) ==
    IF check(packet) # None
    THEN [write |-> <<43>>, break |-> TRUE, value |-> check(packet)]
    ELSE [write |-> <<45>>, break |-> FALSE, value |-> None]

\* the match with an invalid notification dropped and the loop going on
on_packet_drop_notification(packet) ==
    IF packet.kind = "Packet"
    THEN IF check(packet) # None
         THEN [write |-> <<43>>, break |-> TRUE, value |-> check(packet)]
         ELSE [write |-> <<45>>, break |-> FALSE, value |-> None]
    ELSE [write |-> << >>, break |-> check(packet) # None, value |-> check(packet)]

\* the match with the error of expected_checksum passed on to the caller
on_packet_err(packet) ==
    IF packet.kind = "Packet"
    THEN IF check(packet) # None
         THEN [write |-> <<43>>, break |-> TRUE, value |-> check(packet)]
         ELSE IF expected_checksum(packet).ok = None
         THEN [write |-> << >>, break |-> TRUE,
               value |-> <<[err |-> expected_checksum(packet).err]>>]
         ELSE [write |-> <<45>>, break |-> FALSE, value |-> None]
    ELSE [write |-> << >>, break |-> TRUE, value |-> check(packet)]

\* the match on an emitted packet in next_packet: the handshake byte written, whether
\* the loop breaks, and the value it breaks with
on_packet(packet) ==
    IF packet.kind = "Packet"
    THEN IF check(packet) # None
         THEN [write |-> <<43>>, break |-> TRUE, value |-> check(packet)]
         ELSE [write |-> <<45>>, break |-> FALSE, value |-> None]
    ELSE [write |-> << >>, break |-> TRUE, value |-> check(packet)]

Init ==
    /\ stream \in Streams
    /\ rest = stream
    /\ pending = << >>
    /\ parser = ParserDefault
    /\ out = << >>
    /\ total = 0
    /\ panicked = FALSE
    /\ writer = << >>
    /\ pc = "idle"
    /\ ret = << >>
    /\ call = << >>
    /\ PacketIdle

\* the caller calls next_packet
Call ==
    /\ pc = "idle"
    /\ ~panicked
    /\ Len(ret) < MaxCalls
    /\ pc' = "loop"
    /\ call' = << >>
    /\ UNCHANGED <<feedVars, writer, ret, packetVars>>

\* one iteration of the loop of next_packet, the transport read (if any) giving n bytes
next_packet(n) ==
    /\ pc = "loop"
    /\ ~panicked
    /\ \E filled \in {fill_buf(pending, rest, n)} :
       \E r \in {feed(parser, filled.buf)} :
       \E did \in {IF r.packet = None
                     THEN [write |-> << >>, break |-> FALSE, value |-> None]
                     ELSE on_packet(r.packet[1])} :
           /\ rest' = filled.rest
           /\ IF filled.buf = << >>
              THEN \* break Ok(None)
                   /\ pc' = "idle"
                   /\ ret' = Append(ret, None)
                   /\ call' = Append(Filled(call), Event("return", None))
                   /\ UNCHANGED <<pending, parser, out, total, panicked, writer>>
              ELSE IF r.panic
              THEN /\ panicked' = TRUE
                   /\ pending' = filled.buf
                   /\ call' = Filled(call)
                   /\ UNCHANGED <<parser, out, total, writer, pc, ret>>
              ELSE /\ panicked' = FALSE
                   /\ parser' = r.parser
                   /\ pending' = From(filled.buf, r.read)
                   /\ total' = total + r.read
                   /\ out' = out \o r.packet
                   /\ writer' = writer \o did.write
                   /\ pc' = IF did.break THEN "idle" ELSE "loop"
                   /\ ret' = IF did.break THEN Append(ret, did.value) ELSE ret
                   /\ call' = Filled(call)
                                   \o [k \in 1..Len(r.packet) |-> Event("emit", r.packet[k])]
                                   \o [k \in 1..Len(did.write) |-> Event("write", did.write[k])]
                                   \o (IF did.break THEN <<Event("return", did.value)>> ELSE << >>)
    /\ UNCHANGED <<stream, packetVars>>

Next ==
    \/ Call
    \/ \E n \in ReadSizes : next_packet(n)

Spec == Init /\ [][Next]_vars

----------------------------------------------------------------------------
(* SpecPacket: a caller of the packet model holding one packet value, which the *)
(* public operations of packet.rs consume and produce.                         *)

Kinds == {"Notification", "Packet"}

UncheckedPackets ==
    {UncheckedPacket(k, d, <<a, b>>) :
        k \in Kinds, d \in SeqsUpTo(DataBytes, MaxData), a \in ChecksumBytes, b \in ChecksumBytes}

\* the value is a CheckedPacket (its one field is unchecked)
IsChecked(x) == "unchecked" \in DOMAIN x

Holds(checked) == pkt # None /\ IsChecked(pkt[1]) = checked

\* the caller holds nothing and is about to build a packet
Free == pkt = None /\ via.op \in {"none", "drop"}

InitPacket ==
    /\ stream = << >>
    /\ rest = << >>
    /\ pending = << >>
    /\ parser = ParserDefault
    /\ out = << >>
    /\ total = 0
    /\ panicked = FALSE
    /\ ServerIdle
    /\ PacketIdle

\* UncheckedPacket { kind, data, checksum }: every field is public
Literal ==
    /\ Free
    /\ \E u \in UncheckedPackets :
            /\ pkt' = Some(u)
            /\ via' = [op |-> "literal", arg |-> u]
    /\ UNCHANGED <<feedVars, serverVars>>

\* packet.checksum[k - 1] = b, on an UncheckedPacket only: CheckedPacket has no DerefMut
SetChecksum(k, b) ==
    /\ Holds(FALSE)
    /\ pkt' = Some([pkt[1] EXCEPT !.checksum[k] = b])
    /\ via' = [op |-> "set_checksum", arg |-> << >>]
    /\ UNCHANGED <<feedVars, serverVars>>

Check ==
    /\ Holds(FALSE)
    /\ pkt' = check(pkt[1])
    /\ via' = [op |-> "check", arg |-> pkt[1]]
    /\ UNCHANGED <<feedVars, serverVars>>

AssumeChecked ==
    /\ Holds(FALSE)
    /\ pkt' = Some(assume_checked(pkt[1]))
    /\ via' = [op |-> "assume_checked", arg |-> pkt[1]]
    /\ UNCHANGED <<feedVars, serverVars>>

InvalidateCheck ==
    /\ Holds(TRUE)
    /\ pkt' = Some(invalidate_check(pkt[1]))
    /\ via' = [op |-> "invalidate_check", arg |-> pkt[1]]
    /\ UNCHANGED <<feedVars, serverVars>>

Empty ==
    /\ Free
    /\ pkt' = Some(empty)
    /\ via' = [op |-> "empty", arg |-> << >>]
    /\ UNCHANGED <<feedVars, serverVars>>

FromData ==
    /\ Free
    /\ \E kind \in Kinds, data \in SeqsUpTo(DataBytes, MaxData) :
            /\ pkt' = Some(from_data(kind, data))
            /\ via' = [op |-> "from_data", arg |-> [kind |-> kind, data |-> data]]
    /\ UNCHANGED <<feedVars, serverVars>>

\* the caller drops the value it holds, or the None a failed check left
Drop ==
    /\ ~Free
    /\ pkt' = None
    /\ via' = [op |-> "drop", arg |-> << >>]
    /\ UNCHANGED <<feedVars, serverVars>>

NextPacket ==
    \/ Drop
    \/ Literal
    \/ \E k \in 1..CHECKSUM_LEN, b \in ChecksumBytes : SetChecksum(k, b)
    \/ Check
    \/ AssumeChecked
    \/ InvalidateCheck
    \/ Empty
    \/ FromData

SpecPacket == InitPacket /\ [][NextPacket]_vars

\* the sum of the bytes of data, as an unbounded integer
RECURSIVE Sum(_)
Sum(data) == IF data = << >> THEN 0 ELSE data[1] + Sum(Tail(data))

\* the hexadecimal digits, by value: "0123456789ABCDEF" and "0123456789abcdef"
UpperHex == <<48, 49, 50, 51, 52, 53, 54, 55, 56, 57, 65, 66, 67, 68, 69, 70>>
LowerHex == <<48, 49, 50, 51, 52, 53, 54, 55, 56, 57, 97, 98, 99, 100, 101, 102>>

\* the numbers the two checksum bytes can be read as: two hexadecimal digits of
\* either case, or (as Rust's integer parsing has it) a '+' and one digit
HexReadings(c) ==
    {n \in 0..255 :
        \/ /\ c[1] \in {UpperHex[(n \div 16) + 1], LowerHex[(n \div 16) + 1]}
           /\ c[2] \in {UpperHex[(n % 16) + 1], LowerHex[(n % 16) + 1]}
        \/ /\ n < 16
           /\ c[1] = 43
           /\ c[2] \in {UpperHex[n + 1], LowerHex[n + 1]}}

\* the invariant of a verified packet: the checksum bytes read as the payload's sum mod 256
ChecksumInvariant(u) == HexReadings(u.checksum) = {Sum(u.data) % 256}

\* C8 as claimed: every CheckedPacket the public operations yield, assume_checked
\* among them, has checksum bytes that read as the 8-bit sum of its data.
C8_EveryCheckedPacketVerified == Holds(TRUE) => ChecksumInvariant(pkt[1].unchecked)

\* C8 amended: every CheckedPacket that check, from_data or empty yields has checksum
\* bytes that read as the 8-bit wrapping sum of its data; assume_checked wraps its
\* argument as it is.
C8_CheckedByVerificationOrDerivation ==
    /\ (Holds(TRUE) /\ via.op \in {"check", "from_data", "empty"})
            => ChecksumInvariant(pkt[1].unchecked)
    /\ via.op = "assume_checked" => pkt = Some([unchecked |-> via.arg])

\* a check has let through a packet whose data sum wrapped past 255
C8_Witness ==
    /\ Holds(TRUE)
    /\ via.op = "check"
    /\ Sum(pkt[1].unchecked.data) > 255

\* C9: check(p) is Some(p wrapped, unchanged) exactly when expected_checksum(p) is
\* Ok(v), which it is exactly when the checksum bytes read as a base-16 number, with
\* v = actual_checksum(p); otherwise, for both checksum-format errors too, it is None.
C9_CheckIffChecksumsAgree ==
    via.op = "check" =>
        LET p        == via.arg
            expected == expected_checksum(p)
        IN  /\ (expected.ok # None) = (HexReadings(p.checksum) # {})
            /\ expected.ok # None => HexReadings(p.checksum) = {expected.ok[1]}
            /\ expected.ok = None => expected.err \in {"NonUtf8", "NonNumber"}
            /\ pkt = IF expected.ok # None /\ expected.ok[1] = actual_checksum(p)
                     THEN Some([unchecked |-> p])
                     ELSE None

\* a check has passed a packet with a payload and lower-case checksum digits
C9_Witness ==
    /\ via.op = "check"
    /\ pkt = Some([unchecked |-> via.arg])
    /\ via.arg.data # << >>
    /\ via.arg.checksum = <<97, 48>>

\* C10: from_data(kind, data) yields kind and data unchanged with the two upper-case
\* hexadecimal digits of the sum of the data bytes modulo 256 as the checksum, and
\* check of the packet made unchecked again yields the same CheckedPacket.
C10_FromDataDerivesChecksum ==
    via.op = "from_data" =>
        LET sum == Sum(via.arg.data) % 256
        IN  /\ pkt = Some([unchecked |->
                        UncheckedPacket(via.arg.kind, via.arg.data,
                                        <<UpperHex[(sum \div 16) + 1], UpperHex[(sum % 16) + 1]>>)])
            /\ check(invalidate_check(pkt[1])) = pkt

\* from_data on a payload whose sum wraps: 0xD0 + 0xD0 = 0x1A0, checksum "A0"
C10_Witness ==
    /\ via.op = "from_data"
    /\ via.arg.data = <<208, 208>>
    /\ pkt[1].unchecked.checksum = <<65, 48>>

----------------------------------------------------------------------------
(* The session claims, read off the log of the running call. *)

IsPrefix(a, b) == Len(a) <= Len(b) /\ a = SubSeq(b, 1, Len(a))

\* the log positions where the parser emitted a packet of the kind, valid or not
Emits(kind, valid) ==
    {k \in 1..Len(call) :
        /\ call[k].ev = "emit"
        /\ call[k].arg.kind = kind
        /\ ChecksumInvariant(call[k].arg) = valid}

IsEvent(k, ev) == k <= Len(call) /\ call[k].ev = ev

\* the source has nothing left: nothing buffered, nothing to come
Exhausted == rest = << >> /\ pending = << >>

\* C3: a checksum-valid Packet-kind packet the parser emits is followed by exactly one
\* write, of '+', and then at once by the return of Ok(Some(that packet)); no read
\* and no other write come in between or after.
C3_ValidPacketAcked ==
    \A k \in Emits("Packet", TRUE) :
        /\ IsEvent(k + 1, "write") /\ call[k + 1].arg = 43
        /\ IsEvent(k + 2, "return") /\ call[k + 2].arg = Some([unchecked |-> call[k].arg])
        /\ Len(call) = k + 2
        /\ pc = "idle"
        /\ ret[Len(ret)] = Some([unchecked |-> call[k].arg])
        /\ writer[Len(writer)] = 43

\* a call has answered '-' to one packet and then '+' to "$0#30", which it returned
C3_Witness ==
    /\ writer = <<45, 43>>
    /\ Len(call) > 5
    /\ ret = <<Some(from_data("Packet", <<48>>))>>

\* the return of the running call is Ok(None), as the log has it
ReturnedNone == IsEvent(Len(call), "return") /\ call[Len(call)].arg = None

\* what C4 says of every checksum-invalid Packet-kind packet but the return value
NakAndRetry(k) ==
    /\ IsEvent(k + 1, "write") /\ call[k + 1].arg = 45
    /\ Len(call) > k + 1 => IsEvent(k + 2, "fill_buf")
    /\ Len(call) = k + 1 => pc = "loop"
    /\ \A j \in k..Len(call) :
            (call[j].ev = "return" /\ call[j].arg # None)
                => call[j].arg[1].unchecked # call[k].arg

RECURSIVE Scan(_, _, _)
Scan(s, acks, valid) ==
    IF s = << >> THEN [wf |-> TRUE, acks |-> acks, valid |-> valid]
    ELSE IF s[1] = 37 THEN [wf |-> FALSE, acks |-> acks, valid |-> valid]
    ELSE IF s[1] # 36 THEN Scan(Tail(s), acks, valid)
    ELSE LET hashes == {i \in 2..Len(s) : s[i] = 35}
             h      == IF hashes = {} THEN 0 ELSE CHOOSE i \in hashes : \A j \in hashes : i <= j
             data   == SubSeq(s, 2, h - 1)
             p      == UncheckedPacket("Packet", data, SubSeq(s, h + 1, h + 2))
         IN  IF h = 0 \/ Len(s) < h + 2 \/ \E i \in 2..(h - 1) : s[i] \in {36, 37, 42, 125}
             THEN [wf |-> FALSE, acks |-> acks, valid |-> valid]
             ELSE IF ChecksumInvariant(p)
             THEN Scan(From(s, h + 2), Append(acks, 43), Append(valid, Some([unchecked |-> p])))
             ELSE Scan(From(s, h + 2), Append(acks, 45), valid)

\* the values next_packet has returned that are packets
Returned == SelectSeq(ret, LAMBDA v : v # None)

\* C5: on a stream of complete Packet-kind packets and marker-free garbage the sink
\* gets, in stream order, one '-' per invalid and one '+' per valid packet and nothing
\* for the garbage, no call fails, and the calls return the valid packets in order.
C5_GarbageIgnored ==
    LET e == Scan(stream, << >>, << >>)
    IN  e.wf =>
            /\ ~panicked
            /\ IsPrefix(writer, e.acks)
            /\ IsPrefix(Returned, e.valid)
            /\ (pc = "idle" /\ Exhausted /\ ret # << >> /\ ret[Len(ret)] = None)
                    => (writer = e.acks /\ Returned = e.valid)

\* the handshake bytes due to the packets emitted so far: one per Packet-kind packet
RECURSIVE Handshake(_)
Handshake(packets) ==
    IF packets = << >> THEN << >>
    ELSE (IF packets[1].kind # "Packet" THEN << >>
          ELSE IF ChecksumInvariant(packets[1]) THEN <<43>> ELSE <<45>>)
         \o Handshake(Tail(packets))

\* C6: the sink holds one handshake byte per Packet-kind packet the parser emitted and
\* none for a Notification-kind packet, valid or not.
C6_NoHandshakeForNotification ==
    /\ writer = Handshake(out)
    /\ Len(writer) = Cardinality({k \in 1..Len(out) : out[k].kind = "Packet"})
    /\ \A k \in 1..Len(call) :
            (call[k].ev = "emit" /\ call[k].arg.kind = "Notification")
                => ~IsEvent(k + 1, "write")

\* the parser has emitted a valid and an invalid notification and a packet: one byte written
C6_Witness ==
    /\ Len(writer) = 1
    /\ \E i, j \in 1..Len(out) :
            /\ out[i].kind = "Notification" /\ ChecksumInvariant(out[i])
            /\ out[j].kind = "Notification" /\ ~ChecksumInvariant(out[j])

----------------------------------------------------------------------------
(* SpecWire: a sender that builds one packet and writes its encoding, with    *)
(* encode into a fresh Vec or with dispatch into the writer of a GdbServer    *)
(* whose source is still unread, and a receiver that feeds the bytes written  *)
(* to a fresh Parser in one call.                                             *)

\* The payload bytes of SpecWire: the five bytes the framing gives a meaning to
\* ('#', '$', '%', '*', '}'), '0' and 0xD0.
PayloadBytes == {35, 36, 37, 42, 48, 125, 208}

\* The checksum bytes of the packets SpecWire's sender writes down field by field.
WireChecksumBytes == {35, 48, 125}

\* the stream the GdbServer of SpecWire was constructed over: "$0#30"
WireSource == <<36, 48, 35, 51, 48>>

InitWire ==
    /\ stream = WireSource
    /\ rest = stream
    /\ pending = << >>
    /\ parser = ParserDefault
    /\ out = << >>
    /\ total = 0
    /\ panicked = FALSE
    /\ writer = << >>
    /\ pc = "idle"
    /\ ret = << >>
    /\ call = << >>
    /\ PacketIdle

\* the receiver has fed the bytes written to its Parser
Received == total > 0 \/ panicked

\* CheckedPacket::from_data on a payload that may hold the reserved bytes
WireFromData ==
    /\ Free
    /\ \E kind \in Kinds, data \in SeqsUpTo(PayloadBytes, MaxPayload) :
            /\ pkt' = Some(from_data(kind, data))
            /\ via' = [op |-> "from_data", arg |-> [kind |-> kind, data |-> data]]
    /\ UNCHANGED <<feedVars, serverVars>>

\* UncheckedPacket { kind, data, checksum } with any checksum bytes
WireLiteral ==
    /\ Free
    /\ \E kind \in Kinds, data \in SeqsUpTo(PayloadBytes, MaxPayload),
          a \in WireChecksumBytes, b \in WireChecksumBytes :
            /\ pkt' = Some(UncheckedPacket(kind, data, <<a, b>>))
            /\ via' = [op |-> "literal", arg |-> << >>]
    /\ UNCHANGED <<feedVars, serverVars>>

\* packet.encode(&mut encoded) on an UncheckedPacket, encoded being a fresh Vec
Encode ==
    /\ Holds(FALSE)
    /\ writer = << >>
    /\ writer' = encode(pkt[1], << >>)
    /\ UNCHANGED <<feedVars, pc, ret, call, packetVars>>

\* GdbServer::dispatch(&packet): packet.encode(&mut self.writer)
Dispatch ==
    /\ Holds(TRUE)
    /\ pc = "idle"
    /\ writer = << >>
    /\ writer' = encode(pkt[1].unchecked, writer)
    /\ UNCHANGED <<feedVars, pc, ret, call, packetVars>>

\* Parser::default().feed(bytes) on all the bytes the sender has written
Receive ==
    /\ writer # << >>
    /\ ~Received
    /\ \E r \in {feed(ParserDefault, writer)} :
            /\ out' = r.packet
            /\ total' = r.read
            /\ panicked' = r.panic
    /\ UNCHANGED <<stream, rest, pending, parser, serverVars, packetVars>>

\* sender and receiver drop what they hold
WireDrop ==
    /\ ~Free
    /\ ~panicked
    /\ pkt' = None
    /\ via' = [op |-> "drop", arg |-> << >>]
    /\ writer' = << >>
    /\ out' = << >>
    /\ total' = 0
    /\ UNCHANGED <<stream, rest, pending, parser, panicked, pc, ret, call>>

NextWire ==
    \/ WireFromData
    \/ WireLiteral
    \/ Empty
    \/ Encode
    \/ Dispatch
    \/ Receive
    \/ WireDrop

SpecWire == InitWire /\ [][NextWire]_vars

\* C11: for every kind and every payload d, the five reserved bytes among its bytes,
\* feeding the encoding of from_data(kind, d) to a fresh Parser in one call does not
\* fault, consumes the whole encoding and returns an UncheckedPacket of that kind,
\* with data d and the checksum of the packet encoded, whose check is that packet.
C11_RoundTrip ==
    (via.op = "from_data" /\ Received) =>
        /\ ~panicked
        /\ total = Len(writer)
        /\ out = <<UncheckedPacket(via.arg.kind, via.arg.data, pkt[1].unchecked.checksum)>>
        /\ check(out[1]) = pkt

\* the payload "*%}" has made the round trip
C11_Witness ==
    /\ via.op = "from_data"
    /\ via.arg.data = <<42, 37, 125>>
    /\ Received
    /\ out # << >>
    /\ out[1].data = <<42, 37, 125>>

\* what one payload byte is written as: '#', '$', '}' and '*' as '}' and the byte
\* with bit 5 flipped (0x03, 0x04, ']' and 0x0A), any other byte as itself
EscapedAs(b) ==
    CASE b = 35  -> <<125, 3>>
      [] b = 36  -> <<125, 4>>
      [] b = 125 -> <<125, 93>>
      [] b = 42  -> <<125, 10>>
      [] OTHER   -> <<b>>

RECURSIVE Escaped(_)
Escaped(data) == IF data = << >> THEN << >> ELSE EscapedAs(data[1]) \o Escaped(Tail(data))

\* the packet the sender holds, without its wrapper
Held == IF IsChecked(pkt[1]) THEN pkt[1].unchecked ELSE pkt[1]

\* C12: what encode, and dispatch through it, writes is the marker of the kind, the
\* payload with each '#', '$', '}' and '*' written as '}' and the byte XOR 0x20 and
\* every other byte as it is, '#', and the two checksum bytes as they are; dispatch
\* reads nothing from the source and leaves the parser alone; the empty packet is
\* written as "$#00".
C12_EncodeFormat ==
    writer # << >> =>
        /\ writer = <<IF Held.kind = "Packet" THEN 36 ELSE 37>>
                        \o Escaped(Held.data) \o <<35>> \o Held.checksum
        /\ via.op = "empty" => writer = <<36, 35, 48, 48>>
        /\ rest = stream /\ pending = << >> /\ parser = ParserDefault
        /\ ret = << >>

\* dispatch has written a packet whose payload holds a '*' and a '$'
C12_Witness ==
    /\ Holds(TRUE)
    /\ pkt[1].unchecked.data = <<48, 42, 36>>
    /\ writer = <<36, 48, 125, 10, 125, 4, 35>> \o pkt[1].unchecked.checksum

----------------------------------------------------------------------------
(* SpecEnd: the session of Spec on streams that end inside a packet: the     *)
(* peer sends one of a few heads and then a packet with a plain byte, an      *)
(* escape and a repeat in its payload, cut off after any number of its bytes. *)

\* "$0}]*!#A1": the payload is '0', '}' (written as '}' ']') and four more '}'
\* (written as '*' '!', 33 - 29 = 4); its sum is 48 + 5 * 125 = 673 = 0x2A1
CutPacket == <<36, 48, 125, 93, 42, 33, 35, 65, 49>>

\* what the parser makes of CutPacket when all of it has arrived
CutPacketDecoded == UncheckedPacket("Packet", <<48, 125, 125, 125, 125, 125>>, <<65, 49>>)

\* the heads, with the packets the parser makes of each: nothing, garbage "0",
\* "$0#30", "%#00" and the checksum-invalid "$0#00"
Heads ==
    { [bytes |-> << >>, packets |-> << >>],
      [bytes |-> <<48>>, packets |-> << >>],
      [bytes |-> <<36, 48, 35, 51, 48>>,
       packets |-> <<UncheckedPacket("Packet", <<48>>, <<51, 48>>)>>],
      [bytes |-> <<37, 35, 48, 48>>,
       packets |-> <<UncheckedPacket("Notification", << >>, <<48, 48>>)>>],
      [bytes |-> <<36, 48, 35, 48, 48>>,
       packets |-> <<UncheckedPacket("Packet", <<48>>, <<48, 48>>)>>] }

InitEnd ==
    /\ stream \in {h.bytes \o UpTo(CutPacket, k) : h \in Heads, k \in 0..Len(CutPacket)}
    /\ rest = stream
    /\ pending = << >>
    /\ parser = ParserDefault
    /\ out = << >>
    /\ total = 0
    /\ panicked = FALSE
    /\ writer = << >>
    /\ pc = "idle"
    /\ ret = << >>
    /\ call = << >>
    /\ PacketIdle

SpecEnd == InitEnd /\ [][Next]_vars

\* the complete packets of the stream, in order
CompletePackets ==
    CHOOSE packets \in {h.packets \o tail : h \in Heads, tail \in {<< >>, <<CutPacketDecoded>>}} :
        \E h \in Heads, k \in 0..Len(CutPacket) :
            /\ stream = h.bytes \o UpTo(CutPacket, k)
            /\ packets = h.packets \o (IF k = Len(CutPacket) THEN <<CutPacketDecoded>> ELSE << >>)

\* C13: a call that finds the source without bytes returns Ok(None), and writes
\* nothing on the way from that read to the return; this is so too where the stream
\* has ended inside a packet, in its payload, after an escape or repeat byte or in its
\* checksum: the call does not fault, only the complete packets of the stream are
\* emitted and returned, and the sink holds handshake bytes for those alone.
C13_NoneAtEndOfStream ==
    /\ rest = << >> => ~panicked
    /\ \A k \in 2..Len(call) :
            (call[k].ev = "return" /\ call[k - 1].ev = "fill_buf")
                => (call[k].arg = None /\ Exhausted /\ k = Len(call) /\ pc = "idle")
    /\ IsPrefix(out, CompletePackets)
    /\ writer = Handshake(out)
    /\ \A k \in 1..Len(ret) :
            ret[k] # None => \E j \in 1..Len(out) : ret[k] = Some([unchecked |-> out[j]])

----------------------------------------------------------------------------
(* SpecIO: the session of Spec over a transport that can fail: a read of the *)
(* source by fill_buf and a write of a handshake byte by write_all may return *)
(* an io::Error, which the ? operator turns into Error::IoError.              *)

\* Err(Error::IoError(..)), Err(Error::NonNumber(..)), Err(Error::NonUtf8(..))
Err(error) == <<[err |-> error]>>

IsErr(value) == value # None /\ "err" \in DOMAIN value[1]

\* The pieces of SpecIO's streams: garbage "0", "$0#30" (valid), "$0#00" (mismatch),
\* "$0#G0" (checksum not a number), "$0#\xFF0" (checksum not UTF-8), "%0#00"
\* (invalid notification).
IOSegments ==
    { <<48>>, <<36, 48, 35, 51, 48>>, <<36, 48, 35, 48, 48>>, <<36, 48, 35, 71, 48>>,
      <<36, 48, 35, 255, 48>>, <<37, 48, 35, 48, 48>> }

InitIO ==
    /\ stream \in {Flatten(segs) : segs \in SeqsUpTo(IOSegments, MaxIOSegs)}
    /\ rest = stream
    /\ pending = << >>
    /\ parser = ParserDefault
    /\ out = << >>
    /\ total = 0
    /\ panicked = FALSE
    /\ writer = << >>
    /\ pc = "idle"
    /\ ret = << >>
    /\ call = << >>
    /\ PacketIdle

\* self.reader.fill_buf()? with the read of the transport failing: the buffer is
\* empty (fill_buf reads only then) and the error is returned
fill_buf_fails ==
    /\ pc = "loop"
    /\ ~panicked
    /\ pending = << >>
    /\ pc' = "idle"
    /\ ret' = Append(ret, Err("IoError"))
    /\ call' = call \o <<Event("fill_buf_err", << >>), Event("return", Err("IoError"))>>
    /\ UNCHANGED <<feedVars, writer, packetVars>>

\* one iteration of the loop in which a packet is emitted and the write_all of its
\* handshake byte fails: the bytes are consumed, the packet is lost, the error returned
write_all_fails(n) ==
    /\ pc = "loop"
    /\ ~panicked
    /\ \E filled \in {fill_buf(pending, rest, n)} :
       \E r \in {feed(parser, filled.buf)} :
           /\ filled.buf # << >>
           /\ ~r.panic
           /\ r.packet # None
           /\ \E did \in {on_packet(r.packet[1])} :
                   /\ did.write # << >>
                   /\ rest' = filled.rest
                   /\ parser' = r.parser
                   /\ pending' = From(filled.buf, r.read)
                   /\ total' = total + r.read
                   /\ out' = out \o r.packet
                   /\ pc' = "idle"
                   /\ ret' = Append(ret, Err("IoError"))
                   /\ call' = Filled(call)
                                \o <<Event("emit", r.packet[1]),
                                     Event("write_err", did.write[1]),
                                     Event("return", Err("IoError"))>>
    /\ UNCHANGED <<stream, panicked, writer, packetVars>>

NextIO ==
    \/ Call
    \/ \E n \in ReadSizes : next_packet(n)
    \/ fill_buf_fails
    \/ \E n \in ReadSizes : write_all_fails(n)

SpecIO == InitIO /\ [][NextIO]_vars

\* C14: next_packet returns Err only on a failed read of the source or a failed write
\* of a handshake byte, as Error::IoError, at once and without another read or write;
\* a Packet-kind packet whose checksum does not verify, be it a mismatch or bytes that
\* are no number or no UTF-8, is answered with (an attempt to write) '-' and never
\* returned as an error.
C14_ErrOnlyFromTransport ==
    /\ \A k \in 1..Len(call) :
            (call[k].ev = "return" /\ IsErr(call[k].arg)) =>
                /\ k > 1
                /\ call[k - 1].ev \in {"fill_buf_err", "write_err"}
                /\ call[k].arg = Err("IoError")
    /\ \A k \in 1..Len(call) :
            call[k].ev \in {"fill_buf_err", "write_err"} =>
                /\ IsEvent(k + 1, "return")
                /\ call[k + 1].arg = Err("IoError")
                /\ Len(call) = k + 1
                /\ pc = "idle"
                /\ ret[Len(ret)] = Err("IoError")
    /\ \A k \in Emits("Packet", FALSE) :
            /\ IsEvent(k + 1, "write") \/ IsEvent(k + 1, "write_err")
            /\ call[k + 1].arg = 45
    /\ \A j \in 1..Len(ret) : IsErr(ret[j]) => ret[j] = Err("IoError")

\* a call has answered '-' to a packet whose checksum is not UTF-8, read on, and
\* returned the error of the read that failed then
C14_Witness ==
    /\ \E k \in Emits("Packet", FALSE) :
            /\ expected_checksum(call[k].arg).err = "NonUtf8"
            /\ IsEvent(k + 1, "write")
    /\ IsEvent(Len(call) - 1, "fill_buf_err")
    /\ ret[Len(ret)] = Err("IoError")

----------------------------------------------------------------------------
(* SpecStep: one Parser taken through a byte stream one feed_one at a time,   *)
(* the step that feed's loop repeats: each step sees the bytes of the stream  *)
(* that are available, from the first unconsumed one on, and consumes what    *)
(* the phase it is in takes.  call holds the record of the last step.         *)

\* The alphabet of SpecStep's streams: 0x0A (as a repeat count: below 29), '#', '$',
\* '%', '*', '0', '}' and 0xFF (as a repeat count: 255 - 29 = 226).
StepBytes == {10, 35, 36, 37, 42, 48, 125, 255}

InitStep ==
    /\ stream \in SeqsUpTo(StepBytes, MaxStep)
    /\ rest = stream
    /\ pending = << >>
    /\ parser = ParserDefault
    /\ out = << >>
    /\ total = 0
    /\ panicked = FALSE
    /\ ServerIdle
    /\ PacketIdle

\* self.feed_one(&input[read..]) with n bytes available
FeedOne(n) ==
    /\ ~panicked
    /\ \E input \in {UpTo(rest, n)} :
       \E r \in {feed_one(parser, input)} :
           /\ call' = <<[before |-> parser, input |-> input, read |-> r.read,
                         packet |-> r.packet, panic |-> r.panic]>>
           /\ panicked' = r.panic
           /\ IF r.panic
              THEN UNCHANGED <<rest, parser, out, total>>
              ELSE /\ parser' = r.parser
                   /\ rest' = From(rest, r.read)
                   /\ out' = out \o r.packet
                   /\ total' = total + r.read
    /\ UNCHANGED <<stream, pending, writer, pc, ret, packetVars>>

NextStep == \E n \in 1..Len(rest) : FeedOne(n)

SpecStep == InitStep /\ [][NextStep]_vars

\* the last step was taken in the phase
StepFrom(phase) == call # << >> /\ call[1].before.state = phase

\* C15: a step in the Repeat phase that returns has appended at most 97 copies
\* (126 - 29, the count of the largest printable count byte) to the payload.
C15_RepeatBounded ==
    (StepFrom("Repeat") /\ ~panicked) =>
        Len(parser.data) - Len(call[1].before.data) <= 97

\* C16: a step in Checksum(n), n being 0 or 1, returns; it consumes min(2 - n, available)
\* bytes, into the checksum buffer from offset n on; with fewer than 2 - n available
\* it reports no packet and leaves the parser in Checksum(n + consumed).
C16_ChecksumAcrossCalls ==
    StepFrom("Checksum") =>
        LET n         == call[1].before.i
            available == Len(call[1].input)
            consumed  == Min(2 - n, available)
        IN  /\ n \in {0, 1}
            /\ ~panicked
            /\ call[1].read = consumed
            /\ \A k \in 1..consumed : parser.checksum[n + k] = call[1].input[k]
            /\ available < 2 - n =>
                    /\ call[1].packet = None
                    /\ parser.state = "Checksum"
                    /\ parser.i = n + consumed

\* C17: whenever the parser is in the Repeat phase its payload accumulator holds a byte.
C17_RepeatHasPayload == parser.state = "Repeat" => parser.data # << >>

\* b with bit 5 (0x20) flipped
FlipBit5(b) == IF b % 64 >= 32 THEN b - 32 ELSE b + 32

----------------------------------------------------------------------------
(* The claims on single feed calls, read off the record of the last call of  *)
(* SpecFeed.                                                                  *)

\* the last feed call has returned
FeedReturned == call # << >> /\ ~call[1].panic

\* C19: a feed call that returns reports a consumed count of at most the length of its
\* input and at most one packet; without a packet the count is the length of the
\* input; with a packet the count is the position right behind the packet's two
\* checksum bytes, which follow the '#', the rest of the input is left to the caller,
\* and the parser is as if the call had been given the consumed bytes alone.
C19_ConsumedUpToPacket ==
    FeedReturned =>
        LET c == call[1]
        IN  /\ c.read <= Len(c.input)
            /\ Len(c.packet) <= 1
            /\ c.packet = None => c.read = Len(c.input)
            /\ c.packet # None =>
                    /\ c.read >= 2
                    /\ SubSeq(c.input, c.read - 1, c.read) = c.packet[1].checksum
                    /\ IF c.read = 2 THEN c.before.state = "Checksum"
                       ELSE c.input[c.read - 2] = 35
                    /\ pending = From(c.input, c.read)
                    /\ parser.state = "Type"
                    /\ \E alone \in {feed(c.before, UpTo(c.input, c.read))} :
                            /\ ~alone.panic
                            /\ alone.parser = parser
                            /\ alone.packet = c.packet
                            /\ alone.read = c.read

\* a call has emitted a packet and left a later byte of its input unconsumed
C19_Witness ==
    /\ FeedReturned
    /\ call[1].packet # None
    /\ call[1].read < Len(call[1].input)
    /\ pending # << >>

\* the position of the first marker of s
FirstMarker(s) == CHOOSE m \in 1..Len(s) : s[m] \in {36, 37} /\ \A j \in 1..(m - 1) : s[j] \notin {36, 37}

RECURSIVE BodyPayload(_, _)
BodyPayload(body, acc) ==
    IF body = << >> THEN [data |-> acc, ended |-> FALSE]
    ELSE IF body[1] = 35 THEN [data |-> acc, ended |-> TRUE]
    ELSE IF body[1] \in {125, 42} /\ Len(body) = 1 THEN [data |-> acc, ended |-> TRUE]
    ELSE IF body[1] = 125
    THEN BodyPayload(Tail(Tail(body)), Append(acc, FlipBit5(body[2])))
    ELSE IF body[1] = 42
    THEN BodyPayload(Tail(Tail(body)),
                     acc \o [k \in 1..(IF body[2] > 29 THEN body[2] - 29 ELSE 0) |->
                                IF acc = << >> THEN 0 ELSE acc[Len(acc)]])
    ELSE BodyPayload(Tail(body), Append(acc, body[1]))

\* C21: behind the first marker of the stream only '#' ends the payload: until a packet
\* is emitted the kind stays that of the first marker, and the packet emitted has the
\* payload of all the bytes between that marker and the '#' before its checksum, a '$'
\* or '%' among them being data like any other byte, so that an unterminated packet
\* and the packet behind it come out as one.
C21_OnlyHashEndsPayload ==
    /\ (out = << >> /\ parser.state # "Type" /\ ~panicked) =>
            parser.kind = IF stream[FirstMarker(stream)] = 37 THEN "Notification" ELSE "Packet"
    /\ (FeedReturned /\ call[1].packet # None) =>
            LET m    == FirstMarker(stream)
                body == BodyPayload(SubSeq(stream, m + 1, total - 3), << >>)
            IN  /\ stream[total - 2] = 35
                /\ ~body.ended
                /\ out[1].data = body.data
                /\ \A k \in (m + 1)..(total - 3) :
                        (stream[k] \in {36, 37} /\ stream[k - 1] \notin {125, 42})
                            => \E j \in 1..Len(out[1].data) : out[1].data[j] = stream[k]

\* "$%#00" has come out as one Packet-kind packet with the payload "%"
C21_Witness ==
    /\ FeedReturned
    /\ call[1].packet # None
    /\ stream = <<36, 37, 35, 48, 48>>
    /\ out = <<UncheckedPacket("Packet", <<37>>, <<48, 48>>)>>

----------------------------------------------------------------------------
(* SpecIOLive: the session of SpecIO with a thread that keeps running: a call *)
(* of next_packet that can take a turn of its loop (a read of the finite      *)
(* source returns bytes, the end of the stream or an error) does so in the    *)
(* end.  The caller is not bound to call again.                               *)

\* one turn of the loop of next_packet, whatever its outcome
Iteration ==
    \/ \E n \in ReadSizes : next_packet(n)
    \/ fill_buf_fails
    \/ \E n \in ReadSizes : write_all_fails(n)

SpecIOLive == SpecIO /\ WF_vars(Iteration)

\* the bytes of the source the reader has not passed by yet
Unread == Len(pending) + Len(rest)

\* C22, the loop: a turn of the loop that does not return moves the read position of
\* the source on by the count feed reported, which is at least one byte.
IterationAdvances ==
    [][(pc = "loop" /\ pc' = "loop" /\ ~panicked') =>
            /\ total' > total
            /\ Unread' = Unread - (total' - total)]_vars

\* C22: every call of next_packet on a finite source returns in the end, with a
\* packet, Ok(None) or an error, each turn of its loop either returning or moving the
\* read position on by the count feed reported, at least one byte.
C22_EveryCallReturns ==
    /\ IterationAdvances
    /\ (pc = "loop") ~> (pc = "idle")

====
